---------------------------- MODULE Spec2Model ----------------------------
(***************************************************************************)
(* Book-collection API (src/app.py, src/models.py): the Books and          *)
(* BorrowRecords tables and the Flask handlers over them.                  *)
(*                                                                         *)
(* Strings are sequences of one-character strings.  The Chinese literals   *)
(* of the source are written by ASCII renderings: the status labels        *)
(* (zai jia / jie chu) are "shelf" / "lent", the category label            *)
(* (wei fen lei) is "none", and the seed rows' titles, authors, publishers *)
(* and categories are abbreviated.  SQL NULL / Python None / JSON null is  *)
(* Null.                                                                   *)
(***************************************************************************)
EXTENDS Integers, Sequences, FiniteSets, TLC

VARIABLES books, borrowRecords, nextId, stats, resp

vars == <<books, borrowRecords, nextId, stats, resp>>

(* Largest BookID the autoincrement counter hands out in the model. *)
MaxId == 4

(* None / NULL: a one-element sequence whose element is no character. *)
Null == <<"NULL">>

(* Status default of the column and of add_book (zai jia, on the shelf). *)
OnShelf == <<"s", "h", "e", "l", "f">>
(* The label get_summary_stats counts (jie chu, lent out). *)
Borrowed == <<"l", "e", "n", "t">>
(* The label get_category_stats gives a falsy category (wei fen lei). *)
Uncategorized == <<"n", "o", "n", "e">>

(* The JSON keys a request body may carry. *)
Fields == {"isbn", "title", "author", "publisher", "category", "status"}

(* A dict with no keys. *)
EmptyDict == [k \in {} |-> Null]

(* Variant: the required-field test as "is None", which lets '' through. *)
TruthyNotNone(v) == v # Null

(* Python truthiness of a string-or-None value: None and '' are falsy. *)
Truthy(v) == v # Null /\ v # <<>>

(* dict.get(key): None when the key is absent. *)
DictGet(data, key) == IF key \in DOMAIN data THEN data[key] ELSE Null

(* dict.get(key, default) *)
DictGetDefault(data, key, default) ==
    IF key \in DOMAIN data THEN data[key] ELSE default

-----------------------------------------------------------------------------
(* Rows *)

Row(id, isbn, title, author, publisher, category, status, created) ==
    [BookID |-> id, ISBN |-> isbn, Title |-> title, Author |-> author,
     Publisher |-> publisher, Category |-> category, Status |-> status,
     CreateDate |-> created]

(* Timestamps: the instant of start-up, when the seed rows get their       *)
(* CreateDate, and the instants later requests are served at               *)
(* (datetime.utcnow).                                                      *)
StartTime == <<"t", "0">>

Times == {<<"t", "1">>}

(* The three sample rows of init_database. *)
SampleBooks ==
    LET cs == <<"c", "s">>
        lit == <<"l", "i", "t">>
    IN  (1 :> Row(1, <<"9","7","8","7","1","1","5","5","4","6","0","8","1">>,
                  <<"S", "E">>, <<"Z", "h", "a", "n", "g">>,
                  <<"T", "U", "P">>, cs, OnShelf, StartTime))
     @@ (2 :> Row(2, <<"9","7","8","7","1","2","1","3","6","1","9","7","2">>,
                  <<"J", "a", "v", "a">>, <<"L", "i">>,
                  <<"P", "H", "E", "I">>, cs, OnShelf, StartTime))
     @@ (3 :> Row(3, <<"9","7","8","7","5","4","4","2","9","1","1","7","0">>,
                  <<"1", "0", "0">>, <<"G", "a", "r", "c", "i", "a">>,
                  <<"N", "H">>, lit, OnShelf, StartTime))

(* isoformat of a timestamp: its text, not the timestamp. *)
IsoFormat(t) == <<"iso">> \o t

(* Book.to_dict *)
to_dict(b) ==
    [bookID |-> b.BookID, isbn |-> b.ISBN, title |-> b.Title,
     author |-> b.Author, publisher |-> b.Publisher,
     category |-> b.Category, status |-> b.Status,
     createDate |-> IF b.CreateDate # Null THEN IsoFormat(b.CreateDate)
                    ELSE Null]

(* The BorrowRecords rows in the store (no handler writes the table): an   *)
(* unreturned loan of book 1 and a returned loan of book 2.                *)
BorrowRow(rid, bid, ret) ==
    [RecordID |-> rid, BookID |-> bid, BorrowerName |-> <<"W">>,
     BorrowDate |-> <<"d", "0">>, ReturnDate |-> ret, Notes |-> Null]

StoredRecords ==
    { BorrowRow(1, 1, Null), BorrowRow(2, 2, <<"d", "1">>) }

-----------------------------------------------------------------------------
(* State *)

(* A response: the request it answers (op, id, hasBody, data, keyword),    *)
(* the HTTP status, and the JSON body by shape: a set of Book dicts, the   *)
(* category entries keyed by the group they come from, the summary.        *)
Response(op, id, hasBody, data, keyword, code, bookDicts, entries, summary) ==
    [op |-> op, id |-> id, hasBody |-> hasBody, data |-> data,
     keyword |-> keyword, code |-> code, books |-> bookDicts,
     entries |-> entries, summary |-> summary]

NoSummary == [totalBooks |-> 0, borrowedBooks |-> 0, availableBooks |-> 0]

(* A response that carries Book dicts or an error. *)
BookResponse(op, id, hasBody, data, code, bookDicts) ==
    Response(op, id, hasBody, data, Null, code, bookDicts, EmptyDict, NoSummary)

TypeOK ==
    /\ DOMAIN books \subseteq 1..MaxId
    /\ \A i \in DOMAIN books : books[i].BookID = i
    /\ nextId \in 1..(MaxId + 1)
    /\ borrowRecords = StoredRecords
    /\ stats.pc \in {"idle", "counted"}

(* After init_database on an empty Books table: the three sample rows; the *)
(* BorrowRecords table holds the rows that were put in the store.          *)
Init ==
    /\ books = SampleBooks
    /\ borrowRecords = StoredRecords
    /\ nextId = 4
    /\ stats = [pc |-> "idle", total_books |-> 0]
    /\ resp = BookResponse("none", 0, FALSE, EmptyDict, 0, {})

-----------------------------------------------------------------------------
(* Store and framework behaviour the handlers rely on *)

(* Every handler's "except Exception as e: ... 500": werkzeug's NotFound   *)
(* raised by get_or_404 is an Exception, as are TypeError and the store's  *)
(* IntegrityError, so each of them ends in this clause.                    *)
ExceptClause(exc) == 500

(* Book.query.get_or_404: the row, or NotFound raised. *)
Exists(book_id) == book_id \in DOMAIN books

(* nullable=False on Books.ISBN, Title, Author: the commit raises          *)
(* IntegrityError for a row that holds NULL in one of them.                *)
BookNotNullViolated(row) ==
    row.ISBN = Null \/ row.Title = Null \/ row.Author = Null

(* Column default of Books.Status: the ORM leaves a None attribute out of  *)
(* the INSERT of a column that has a default, so the default is stored.    *)
StatusOnInsert(v) == IF v = Null THEN OnShelf ELSE v

(* Rows of BorrowRecords that db.session.delete(book) detaches through     *)
(* Book.borrow_records (no delete cascade): their BookID is set to NULL.   *)
Dependents(book_id) == { r \in borrowRecords : r.BookID = book_id }

(* nullable=False on BorrowRecords.BookID: detaching any row fails the     *)
(* flush with IntegrityError.                                              *)
RecordNotNullViolated(book_id) == Dependents(book_id) # {}

-----------------------------------------------------------------------------
(* get_all_books, get_book *)

AllDicts == { to_dict(books[i]) : i \in DOMAIN books }

get_all_books ==
    /\ resp' = BookResponse("list", 0, FALSE, EmptyDict, 200, AllDicts)
    /\ UNCHANGED <<books, borrowRecords, nextId, stats>>

(* What get_book answers in the current state. *)
GetAnswer(book_id) ==
    IF Exists(book_id)
    THEN BookResponse("get", book_id, FALSE, EmptyDict, 200,
                      {to_dict(books[book_id])})
    ELSE BookResponse("get", book_id, FALSE, EmptyDict,
                      ExceptClause("NotFound"), {})

get_book(book_id) ==
    /\ resp' = GetAnswer(book_id)
    /\ UNCHANGED <<books, borrowRecords, nextId, stats>>

-----------------------------------------------------------------------------
(* add_book *)

required_fields == <<"isbn", "title", "author">>

(* "if not data": no JSON body, or an empty object. *)
NoData(hasBody, data) == ~hasBody \/ DOMAIN data = {}

(* The first required field whose value is falsy, 0 when there is none. *)
MissingField(data) ==
    LET bad == { n \in 1..Len(required_fields) :
                   ~Truthy(DictGet(data, required_fields[n])) }
    IN  IF bad = {} THEN 0
        ELSE CHOOSE n \in bad : \A m \in bad : n <= m

(* Variant: publisher and category read from each other's key. *)
NewBookSwapped(id, data, now) ==
    Row(id, data["isbn"], data["title"], data["author"],
        DictGet(data, "category"), DictGet(data, "publisher"),
        StatusOnInsert(DictGetDefault(data, "status", OnShelf)), now)

(* The Book(...) add_book builds, as the INSERT stores it. *)
NewBook(id, data, now) ==
    Row(id, data["isbn"], data["title"], data["author"],
        DictGet(data, "publisher"), DictGet(data, "category"),
        StatusOnInsert(DictGetDefault(data, "status", OnShelf)), now)

add_book(hasBody, data, now) ==
    IF NoData(hasBody, data) \/ MissingField(data) # 0
    THEN /\ resp' = BookResponse("add", 0, hasBody, data, 400, {})
         /\ UNCHANGED <<books, borrowRecords, nextId, stats>>
    ELSE /\ nextId <= MaxId
         /\ LET book == NewBook(nextId, data, now)
            IN  /\ books' = (nextId :> book) @@ books
                /\ resp' = BookResponse("add", nextId, hasBody, data, 201,
                                        {to_dict(book)})
         /\ nextId' = nextId + 1
         /\ UNCHANGED <<borrowRecords, stats>>

-----------------------------------------------------------------------------
(* update_book *)

(* One "if key in data: book.Col = data[key]". *)
Assign(data, key, old) == IF key \in DOMAIN data THEN data[key] ELSE old

(* Variant: publisher assigned from data.get, a full replace of it. *)
ApplyUpdateReplacingPublisher(book, data) ==
    [book EXCEPT !.ISBN = Assign(data, "isbn", @),
                 !.Title = Assign(data, "title", @),
                 !.Author = Assign(data, "author", @),
                 !.Publisher = DictGet(data, "publisher"),
                 !.Category = Assign(data, "category", @),
                 !.Status = Assign(data, "status", @)]

(* The six conditional assignments of update_book. *)
ApplyUpdate(book, data) ==
    [book EXCEPT !.ISBN = Assign(data, "isbn", @),
                 !.Title = Assign(data, "title", @),
                 !.Author = Assign(data, "author", @),
                 !.Publisher = Assign(data, "publisher", @),
                 !.Category = Assign(data, "category", @),
                 !.Status = Assign(data, "status", @)]

(* NotFound for an absent id, TypeError for "'isbn' in None", the store's  *)
(* IntegrityError at commit: each is caught, rolled back, answered 500.    *)
update_book(book_id, hasBody, data) ==
    LET updated == ApplyUpdate(books[book_id], data)
    IN  IF ~Exists(book_id)
        THEN /\ resp' = BookResponse("update", book_id, hasBody, data,
                                     ExceptClause("NotFound"), {})
             /\ UNCHANGED <<books, borrowRecords, nextId, stats>>
        ELSE IF ~hasBody
        THEN /\ resp' = BookResponse("update", book_id, hasBody, data,
                                     ExceptClause("TypeError"), {})
             /\ UNCHANGED <<books, borrowRecords, nextId, stats>>
        ELSE IF BookNotNullViolated(updated)
        THEN /\ resp' = BookResponse("update", book_id, hasBody, data,
                                     ExceptClause("IntegrityError"), {})
             /\ UNCHANGED <<books, borrowRecords, nextId, stats>>
        ELSE /\ books' = [books EXCEPT ![book_id] = updated]
             /\ resp' = BookResponse("update", book_id, hasBody, data, 200,
                                     {to_dict(updated)})
             /\ UNCHANGED <<borrowRecords, nextId, stats>>

-----------------------------------------------------------------------------
(* delete_book *)

(* Variant: the filter looks for returned loans instead of unreturned. *)
ActiveRecordsReturned(book_id) ==
    \E r \in borrowRecords : r.BookID = book_id /\ r.ReturnDate # Null

(* BorrowRecord.query.filter_by(BookID=book_id, ReturnDate=None).first()   *)
(* finds a row.                                                            *)
ActiveRecords(book_id) ==
    \E r \in borrowRecords : r.BookID = book_id /\ r.ReturnDate = Null

delete_book(book_id) ==
    IF ~Exists(book_id)
    THEN /\ resp' = BookResponse("delete", book_id, FALSE, EmptyDict,
                                 ExceptClause("NotFound"), {})
         /\ UNCHANGED <<books, borrowRecords, nextId, stats>>
    ELSE IF ActiveRecords(book_id)
    THEN /\ resp' = BookResponse("delete", book_id, FALSE, EmptyDict, 400, {})
         /\ UNCHANGED <<books, borrowRecords, nextId, stats>>
    ELSE IF RecordNotNullViolated(book_id)
    THEN /\ resp' = BookResponse("delete", book_id, FALSE, EmptyDict,
                                 ExceptClause("IntegrityError"), {})
         /\ UNCHANGED <<books, borrowRecords, nextId, stats>>
    ELSE /\ books' = [i \in DOMAIN books \ {book_id} |-> books[i]]
         /\ resp' = BookResponse("delete", book_id, FALSE, EmptyDict, 200, {})
         /\ UNCHANGED <<borrowRecords, nextId, stats>>

-----------------------------------------------------------------------------
(* search_books *)

(* SQL LIKE: % matches any run of characters, _ any one character, every   *)
(* other pattern character itself.  NULL matches nothing.                  *)
RECURSIVE LikeFrom(_, _, _, _)
LikeFrom(s, i, p, j) ==
    IF j > Len(p) THEN i > Len(s)
    ELSE IF p[j] = "%"
         THEN \E k \in i..(Len(s) + 1) : LikeFrom(s, k, p, j + 1)
    ELSE IF i > Len(s) THEN FALSE
    ELSE IF p[j] = "_" \/ p[j] = s[i] THEN LikeFrom(s, i + 1, p, j + 1)
    ELSE FALSE

Like(s, p) == s # Null /\ LikeFrom(s, 1, p, 1)

(* The f'%{keyword}%' of the query: the keyword goes into the pattern as   *)
(* it is.                                                                  *)
Pattern(keyword) == <<"%">> \o keyword \o <<"%">>

(* request.args.get('keyword', '') *)
KeywordArg(arg) == IF arg = Null THEN <<>> ELSE arg

Matching(keyword) ==
    { i \in DOMAIN books : \/ Like(books[i].Title, Pattern(keyword))
                            \/ Like(books[i].Author, Pattern(keyword)) }

search_books(arg) ==
    LET keyword == KeywordArg(arg)
        found == IF keyword = <<>> THEN DOMAIN books ELSE Matching(keyword)
    IN  /\ resp' = Response("search", 0, FALSE, EmptyDict, arg, 200,
                            { to_dict(books[i]) : i \in found },
                            EmptyDict, NoSummary)
        /\ UNCHANGED <<books, borrowRecords, nextId, stats>>

-----------------------------------------------------------------------------
(* get_summary_stats: two count queries, each its own statement, so other  *)
(* requests' commits can fall between them.                                *)

(* Book.query.count() *)
CountAll == Cardinality(DOMAIN books)

(* Book.query.filter_by(Status=...).count() *)
CountStatus(label) ==
    Cardinality({ i \in DOMAIN books : books[i].Status = label })

SummaryTotal ==
    /\ stats.pc = "idle"
    /\ stats' = [pc |-> "counted", total_books |-> CountAll]
    /\ UNCHANGED <<books, borrowRecords, nextId, resp>>

SummaryBorrowed ==
    /\ stats.pc = "counted"
    /\ LET total_books == stats.total_books
           borrowed_books == CountStatus(Borrowed)
       IN  resp' = Response("summary", 0, FALSE, EmptyDict, Null, 200, {},
                            EmptyDict,
                            [totalBooks |-> total_books,
                             borrowedBooks |-> borrowed_books,
                             availableBooks |-> total_books - borrowed_books])
    /\ stats' = [pc |-> "idle", total_books |-> 0]
    /\ UNCHANGED <<books, borrowRecords, nextId>>

-----------------------------------------------------------------------------
(* get_category_stats *)

(* The groups of "GROUP BY Category": NULL is a group of its own. *)
Groups == { books[i].Category : i \in DOMAIN books }

(* Variant: the group value used as the label, without the "or". *)
CategoryLabelRaw(c) == c

(* row[0] or (the label): a falsy category, None or '', gets the label. *)
CategoryLabel(c) == IF Truthy(c) THEN c ELSE Uncategorized

(* The entries, keyed by the group each comes from. *)
CategoryEntries ==
    [g \in Groups |->
        [category |-> CategoryLabel(g),
         count |-> Cardinality({ i \in DOMAIN books : books[i].Category = g })]]

get_category_stats ==
    /\ resp' = Response("category", 0, FALSE, EmptyDict, Null, 200, {},
                        CategoryEntries, NoSummary)
    /\ UNCHANGED <<books, borrowRecords, nextId, stats>>

-----------------------------------------------------------------------------
(* Requests *)

Ids == 1..(MaxId + 1)

(* JSON bodies sent to POST /api/books. *)
AddBodies ==
    LET isbn == "isbn" :> <<"1", "1", "1">>
        title == "title" :> <<"A", "_">>
        author == "author" :> <<"B">>
    IN  { EmptyDict,
          isbn @@ title,
          isbn @@ title @@ ("author" :> <<>>),
          ("isbn" :> Null) @@ title @@ author,
          isbn @@ title @@ author,
          isbn @@ title @@ author @@ ("status" :> Null),
          isbn @@ title @@ author @@ ("publisher" :> <<"P">>)
               @@ ("category" :> <<>>) @@ ("status" :> Borrowed) }

(* JSON bodies sent to PUT /api/books/{id}. *)
UpdateBodies ==
    { EmptyDict,
      ("title" :> <<>>) @@ ("category" :> Null) @@ ("status" :> Borrowed),
      "isbn" :> Null }

(* keyword arguments of GET /api/books/search; Null is no argument. *)
Keywords == { Null, <<>>, <<"J", "a">>, <<"_">>, <<"%">> }

Next ==
    \/ get_all_books
    \/ \E book_id \in Ids : get_book(book_id)
    \/ \E now \in Times : \/ add_book(FALSE, EmptyDict, now)
                          \/ \E data \in AddBodies : add_book(TRUE, data, now)
    \/ \E book_id \in Ids : \/ update_book(book_id, FALSE, EmptyDict)
                            \/ \E data \in UpdateBodies :
                                   update_book(book_id, TRUE, data)
    \/ \E book_id \in Ids : delete_book(book_id)
    \/ \E arg \in Keywords : search_books(arg)
    \/ SummaryTotal
    \/ SummaryBorrowed
    \/ get_category_stats

Spec == Init /\ [][Next]_vars

-----------------------------------------------------------------------------
(* Vocabulary of the properties *)

(* The column a JSON key names. *)
Col(b, f) ==
    CASE f = "isbn" -> b.ISBN
      [] f = "title" -> b.Title
      [] f = "author" -> b.Author
      [] f = "publisher" -> b.Publisher
      [] f = "category" -> b.Category
      [] f = "status" -> b.Status

(* The book has a loan that was not returned. *)
HasActiveLoan(id) ==
    \E r \in borrowRecords : r.BookID = id /\ r.ReturnDate = Null

(* A field is given: its key is there with a value that is not null. *)
Given(data, f) == f \in DOMAIN data /\ data[f] # Null

(* A valid CreateBook input: isbn, title and author given and not empty. *)
ValidInput(hasBody, data) ==
    hasBody /\ \A f \in {"isbn", "title", "author"} :
                   Given(data, f) /\ data[f] # <<>>

(* k occurs in s as a run of consecutive characters. *)
Contains(s, k) ==
    /\ s # Null
    /\ \E i \in 0..(Len(s) - Len(k)) : SubSeq(s, i + 1, i + Len(k)) = k

RECURSIVE SumCounts(_, _)
SumCounts(entries, groups) ==
    IF groups = {} THEN 0
    ELSE LET g == CHOOSE x \in groups : TRUE
         IN  entries[g].count + SumCounts(entries, groups \ {g})

-----------------------------------------------------------------------------
(* The step is the handling of the request that resp' answers. *)
Handles(op) == resp'.op = op

(* C1: for a book id that is not in Books, GET, PUT and DELETE on it each  *)
(* answer 404 and leave Books and BorrowRecords unchanged.                 *)
C1_AbsentIdAnswers404 ==
    [][LET id == resp'.id
       IN  ( /\ \/ Handles("get") /\ get_book(id)
                \/ Handles("delete") /\ delete_book(id)
                \/ Handles("update")
                     /\ update_book(id, resp'.hasBody, resp'.data)
             /\ ~Exists(id) )
           => ( /\ resp'.code = 404
                /\ UNCHANGED <<books, borrowRecords>> )]_vars

(* C2: DeleteBook on an existing Book with an unreturned loan answers 400  *)
(* and leaves the Book row and all BorrowRecords as they were.             *)
C2_DeleteWithActiveLoanConflicts ==
    [][LET id == resp'.id
       IN  ( /\ Handles("delete") /\ delete_book(id)
             /\ Exists(id) /\ HasActiveLoan(id) )
           => ( /\ resp'.code = 400
                /\ id \in DOMAIN books' /\ books'[id] = books[id]
                /\ borrowRecords' = borrowRecords )]_vars

C2_Witness ==
    /\ resp.op = "delete" /\ resp.code = 400
    /\ Exists(resp.id) /\ HasActiveLoan(resp.id)

(* C3: DeleteBook on an existing Book with no BorrowRecords, or only       *)
(* returned ones, answers 200 and removes the row, and GetBook on an id    *)
(* that was deleted answers 404.                                           *)
C3_DeleteWithoutActiveLoanSucceeds ==
    [][LET id == resp'.id
       IN  /\ ( /\ Handles("delete") /\ delete_book(id)
                /\ Exists(id) /\ ~HasActiveLoan(id) )
              => (resp'.code = 200 /\ id \notin DOMAIN books')
           /\ ( /\ Handles("get") /\ get_book(id)
                /\ id < nextId /\ ~Exists(id) )
              => resp'.code = 404]_vars

(* The frame of an update: the row of id holds the given values in the     *)
(* keys of data and its old values elsewhere, and no other row differs.    *)
ExactlyUpdated(id, data) ==
    /\ DOMAIN books' = DOMAIN books
    /\ \A f \in Fields :
          Col(books'[id], f) = IF f \in DOMAIN data THEN data[f]
                               ELSE Col(books[id], f)
    /\ books'[id].BookID = books[id].BookID
    /\ books'[id].CreateDate = books[id].CreateDate
    /\ \A j \in DOMAIN books \ {id} : books'[j] = books[j]

(* C4 as stated: UpdateBook on an existing Book sets exactly the fields    *)
(* present in the input and leaves everything else as it was.              *)
C4_UpdateSetsExactlyGivenFields ==
    [][LET id == resp'.id
           data == resp'.data
       IN  ( /\ Handles("update") /\ resp'.hasBody
             /\ update_book(id, TRUE, data)
             /\ Exists(id) )
           => ExactlyUpdated(id, data)]_vars

(* C4 amended: an UpdateBook on an existing Book that is answered 200      *)
(* sets exactly the fields present in the input and leaves everything      *)
(* else as it was; one that is answered otherwise changes no row.          *)
C4_AcceptedUpdateSetsExactlyGivenFields ==
    [][LET id == resp'.id
           data == resp'.data
       IN  ( /\ Handles("update") /\ resp'.hasBody
             /\ update_book(id, TRUE, data)
             /\ Exists(id) )
           => IF resp'.code = 200 THEN ExactlyUpdated(id, data)
              ELSE books' = books]_vars

C4_Witness ==
    /\ resp.op = "update" /\ resp.code = 200
    /\ DOMAIN resp.data = {"title", "category", "status"}
    /\ Exists(resp.id)
    /\ books[resp.id].Title = <<>> /\ books[resp.id].Status = Borrowed
    /\ books[resp.id].ISBN = SampleBooks[resp.id].ISBN

C6_CreateThenGet ==
    [][LET data == resp'.data
       IN  ( /\ Handles("add")
             /\ \E now \in Times : add_book(resp'.hasBody, data, now)
             /\ ValidInput(resp'.hasBody, data) )
           => /\ resp'.code = 201
              /\ \E id \in Ids :
                   /\ resp'.id = id
                   /\ ~Exists(id) /\ id >= nextId
                   /\ LET got == GetAnswer(id)'
                      IN  /\ got.code = 200
                          /\ \E d \in got.books :
                               /\ d.bookID = id
                               /\ \A f \in Fields :
                                     Given(data, f) => d[f] = data[f]
                               /\ ~Given(data, "status")
                                     => d.status = OnShelf]_vars

C6_Witness ==
    /\ resp.op = "add" /\ resp.code = 201
    /\ "status" \notin DOMAIN resp.data
    /\ Exists(resp.id) /\ books[resp.id].Status = OnShelf

(* C7: SearchBooks with an empty or absent keyword returns the Books that  *)
(* ListBooks returns; with any other keyword, exactly the Books whose      *)
(* title or author contains the keyword as a literal substring.            *)
C7_SearchIsLiteralSubstring ==
    resp.op = "search" =>
        LET keyword == IF resp.keyword = Null THEN <<>> ELSE resp.keyword
        IN  resp.books =
              IF keyword = <<>> THEN AllDicts
              ELSE { to_dict(books[i]) :
                       i \in { j \in DOMAIN books :
                                 \/ Contains(books[j].Title, keyword)
                                 \/ Contains(books[j].Author, keyword) } }

(* C8: the counts of CategoryStats sum to the number of Books, the         *)
(* totalBooks of SummaryStats in the same state, and the Books whose       *)
(* category is null are counted in an entry labelled uncategorized.        *)
C8_CategoryCountsSumToTotal ==
    resp.op = "category" =>
        LET nulls == { i \in DOMAIN books : books[i].Category = Null }
        IN  /\ SumCounts(resp.entries, DOMAIN resp.entries) = CountAll
            /\ nulls # {} =>
                 \E g \in DOMAIN resp.entries :
                    /\ resp.entries[g].category = Uncategorized
                    /\ resp.entries[g].count = Cardinality(nulls)

C8_Witness ==
    /\ resp.op = "category"
    /\ \E i \in DOMAIN books : books[i].Category = Null
    /\ \E i \in DOMAIN books : books[i].Category = <<>>
    /\ Cardinality(DOMAIN resp.entries) >= 3

(* C9: every Book row has non-empty isbn, title and author. *)
C9_RequiredFieldsStayNonEmpty ==
    \A i \in DOMAIN books :
        \A f \in {"isbn", "title", "author"} :
            Col(books[i], f) # Null /\ Col(books[i], f) # <<>>

(* C10: every SummaryStats response has 0 <= borrowedBooks <= totalBooks,  *)
(* whatever other requests do between its two count queries.               *)
C10_SummaryBorrowedWithinTotal ==
    resp.op = "summary" =>
        /\ 0 <= resp.summary.borrowedBooks
        /\ resp.summary.borrowedBooks <= resp.summary.totalBooks

=============================================================================
